---------------------------- MODULE Spec2Model ----------------------------
(***************************************************************************)
(* Model of the endpoint resolver and of the request signers of            *)
(* alibabacloud-python-sdk-v2:                                             *)
(*   alibabacloud/endpoint/location_service_endpoint_resolver.py           *)
(*   alibabacloud/signer/composer.py                                       *)
(*                                                                         *)
(* Python strings are sequences of one-character strings, so that lower(), *)
(* join, sorting and percent-encoding are computed and not assumed.        *)
(* Python's None is the value None below, which is no string.              *)
(*                                                                         *)
(* Spec       : threads calling LocationServiceEndpointResolver.resolve    *)
(*              on one shared resolver.                                    *)
(* SpecSigner : one ROASigner or RPCSigner, constructed and then read.     *)
(***************************************************************************)
EXTENDS Naturals, Sequences, FiniteSets, TLC

VARIABLES
    \* ---- LocationServiceEndpointResolver (shared by the threads) ----
    endpoints_data,          \* EndpointResolverBase.endpoints_data: key -> host | None
    invalid_product_codes,   \* self._invalid_product_codes
    invalid_region_ids,      \* self._invalid_region_ids
    valid_product_codes,     \* self._valid_product_codes
    valid_region_ids,        \* self._valid_region_ids
    \* ---- one resolve() call per thread ----
    pc,                      \* position of the thread inside resolve()
    req,                     \* the request the thread resolves
    resp,                    \* what DescribeEndpointCaller.fetch gave the thread (see Seen)
    ret,                     \* what resolve() returned (or raised) to the caller
    \* ---- history, read by the properties only ----
    snap,                    \* per thread: what held when its call began
    \* ---- one signer object (composer.py) ----
    signer,                  \* the ROASigner or RPCSigner: its fields
    request,                 \* the api_request it was given, which it holds by reference
    \* ---- history, read by the properties only ----
    reads,                   \* what each read of signature / params / headers gave
    given                    \* the api_request as it was when the signer got it

resolverVars == <<endpoints_data, invalid_product_codes, invalid_region_ids,
                  valid_product_codes, valid_region_ids, pc, req, resp, ret,
                  snap>>
signerVars == <<signer, request, reads, given>>
vars == <<resolverVars, signerVars>>

---------------------------------------------------------------------------
(* Bounds *)

\* Number of threads sharing the resolver.
NumThreads == 2
\* Longest Endpoints.Endpoint list in a describe-endpoint response.
MaxItems == 2
\* Number of property reads made on one signer.
MaxReads == 3

Threads == 1..NumThreads

---------------------------------------------------------------------------
(* Strings *)

None == <<"None">>

UpperCase == <<"A","B","C","D","E","F","G","H","I","J","K","L","M",
               "N","O","P","Q","R","S","T","U","V","W","X","Y","Z">>
LowerCase == <<"a","b","c","d","e","f","g","h","i","j","k","l","m",
               "n","o","p","q","r","s","t","u","v","w","x","y","z">>

LowerChar(c) ==
    IF \E i \in DOMAIN UpperCase : UpperCase[i] = c
    THEN LowerCase[CHOOSE i \in DOMAIN UpperCase : UpperCase[i] = c]
    ELSE c

\* str.lower()
Lower(s) == [i \in DOMAIN s |-> LowerChar(s[i])]

\* str.upper()
UpperChar(c) ==
    IF \E i \in DOMAIN LowerCase : LowerCase[i] = c
    THEN UpperCase[CHOOSE i \in DOMAIN LowerCase : LowerCase[i] = c]
    ELSE c

Upper(s) == [i \in DOMAIN s |-> UpperChar(s[i])]

\* sep.join(parts)
RECURSIVE Join(_, _)
Join(parts, sep) ==
    IF parts = <<>> THEN <<>>
    ELSE IF Len(parts) = 1 THEN parts[1]
    ELSE parts[1] \o sep \o Join(Tail(parts), sep)

\* Python truthiness of a string-or-None value
Truthy(v) == v # None /\ v # <<>>

\* a or b
Or(a, b) == IF Truthy(a) THEN a ELSE b

\* the characters of a string literal, one by one
Chars(str) == [i \in 1..Len(str) |-> SubSeq(str, i, i)]

\* printable ASCII in code order, from 32 (space) to 126 (~); code 96 (the grave
\* accent, which no TLA+ string can hold and no value below contains) is named
Ascii ==
    <<" ", "!", "\"", "#", "$", "%", "&", "'", "(", ")", "*", "+", ",",
      "-", ".", "/", "0", "1", "2", "3", "4", "5", "6", "7", "8", "9", ":",
      ";", "<", "=", ">", "?", "@", "A", "B", "C", "D", "E", "F", "G", "H",
      "I", "J", "K", "L", "M", "N", "O", "P", "Q", "R", "S", "T", "U", "V",
      "W", "X", "Y", "Z", "[", "\\", "]", "^", "_">>
    \o <<"grave">>
    \o
    <<"a", "b", "c", "d", "e", "f", "g", "h", "i", "j", "k", "l", "m", "n",
      "o", "p", "q", "r", "s", "t", "u", "v", "w", "x", "y", "z", "{", "|",
      "}", "~">>
HexDigit ==
    <<"0", "1", "2", "3", "4", "5", "6", "7", "8", "9", "A", "B", "C", "D",
      "E", "F">>
Digits == <<"0", "1", "2", "3", "4", "5", "6", "7", "8", "9">>
Newline == "\n"

\* ord(c)
CodePoint ==
    [c \in {Ascii[i] : i \in DOMAIN Ascii} \cup {Newline} |->
        IF c = Newline THEN 10
        ELSE 31 + (CHOOSE i \in DOMAIN Ascii : Ascii[i] = c)]
Ord(c) == CodePoint[c]

Range(s) == {s[i] : i \in DOMAIN s}

\* str(v)
Str(v) == IF v = None THEN Chars("None") ELSE v

\* s.endswith(suffix)
EndsWith(s, suffix) ==
    /\ Len(suffix) <= Len(s)
    /\ SubSeq(s, Len(s) - Len(suffix) + 1, Len(s)) = suffix

\* s.find(sub) >= 0
Contains(s, sub) ==
    \E i \in 1..(Len(s) + 1) :
        i + Len(sub) - 1 <= Len(s) /\ SubSeq(s, i, i + Len(sub) - 1) = sub

\* concatenation of a sequence of strings (by halves, to keep the nesting low)
RECURSIVE ConcatRange(_, _, _)
ConcatRange(parts, lo, hi) ==
    IF lo > hi THEN <<>>
    ELSE IF lo = hi THEN parts[lo]
    ELSE LET mid == (lo + hi) \div 2 IN
         ConcatRange(parts, lo, mid) \o ConcatRange(parts, mid + 1, hi)
Concat(parts) == ConcatRange(parts, 1, Len(parts))

\* s.replace(old, new), for an old that is not empty and of which no proper
\* prefix is also a suffix ("+", "*", " ", "%7E", "[key]"): its occurrences
\* cannot overlap, so every occurrence is replaced
StartsAt(s, old, i) ==
    /\ i >= 1
    /\ i + Len(old) - 1 <= Len(s)
    /\ \A k \in DOMAIN old : s[i + k - 1] = old[k]
Replace(s, old, new) ==
    Concat([i \in DOMAIN s |->
              IF StartsAt(s, old, i) THEN new
              ELSE IF \E k \in 1..(Len(old) - 1) : StartsAt(s, old, i - k) THEN <<>>
              ELSE <<s[i]>>])

\* s.rsplit(sep, 1), sep one character
RSplit1(s, sep) ==
    LET at == {i \in DOMAIN s : s[i] = sep} IN
    IF at = {} THEN <<s>>
    ELSE LET i == CHOOSE k \in at : \A m \in at : m <= k IN
         <<SubSeq(s, 1, i - 1), SubSeq(s, i + 1, Len(s))>>

\* a < b for Python strings (code point order)
RECURSIVE StrLessFrom(_, _, _)
StrLessFrom(a, b, i) ==
    IF i > Len(b) THEN FALSE
    ELSE IF i > Len(a) THEN TRUE
    ELSE IF a[i] = b[i] THEN StrLessFrom(a, b, i + 1)
    ELSE Ord(a[i]) < Ord(b[i])
StrLess(a, b) == StrLessFrom(a, b, 1)

---------------------------------------------------------------------------
(* dict: the items in insertion order, each <<key, value>> *)

DictKeys(d) == {d[i][1] : i \in DOMAIN d}

\* d.get(k)
DictGet(d, k) ==
    IF k \in DictKeys(d) THEN d[CHOOSE i \in DOMAIN d : d[i][1] = k][2] ELSE None

\* d[k] = v
DictSet(d, k, v) ==
    IF k \in DictKeys(d)
    THEN [i \in DOMAIN d |-> IF d[i][1] = k THEN <<k, v>> ELSE d[i]]
    ELSE Append(d, <<k, v>>)

\* d.update(e)
RECURSIVE DictUpdateFrom(_, _, _)
DictUpdateFrom(d, e, i) ==
    IF i > Len(e) THEN d
    ELSE DictUpdateFrom(DictSet(d, e[i][1], e[i][2]), e, i + 1)
DictUpdate(d, e) == DictUpdateFrom(d, e, 1)

\* sorted(iteritems(d), key=lambda d: d[0])
SortedInsert(sorted, x) ==
    LET n == Cardinality({i \in DOMAIN sorted : ~StrLess(x[1], sorted[i][1])}) IN
    SubSeq(sorted, 1, n) \o <<x>> \o SubSeq(sorted, n + 1, Len(sorted))
RECURSIVE Sorted(_)
Sorted(items) ==
    IF items = <<>> THEN <<>>
    ELSE SortedInsert(Sorted(SubSeq(items, 1, Len(items) - 1)), items[Len(items)])

---------------------------------------------------------------------------
(* urllib: quote, quote_plus, urlencode, pathname2url *)

AlwaysSafe ==
    Range(UpperCase) \cup Range(LowerCase) \cup Range(Digits) \cup {"_", ".", "-", "~"}

PercentEncode(c) ==
    <<"%", HexDigit[(Ord(c) \div 16) + 1], HexDigit[(Ord(c) % 16) + 1]>>

\* quote(s, safe)
Quote(s, safe) ==
    Concat([i \in DOMAIN s |->
              IF s[i] \in AlwaysSafe \cup safe THEN <<s[i]>> ELSE PercentEncode(s[i])])

\* quote_plus(s)
QuotePlus(s) == Replace(Quote(s, {" "}), <<" ">>, <<"+">>)

\* urlencode(items): quote_plus(str(k)) + '=' + quote_plus(str(v)), joined by '&'
Urlencode(items) ==
    Join([i \in DOMAIN items |->
            QuotePlus(Str(items[i][1])) \o <<"=">> \o QuotePlus(Str(items[i][2]))],
         <<"&">>)

\* pathname2url(s) on a POSIX host
Pathname2Url(s) == Quote(s, {"/"})

---------------------------------------------------------------------------
(* the collaborators of the signers that are not in composer.py *)

\* a 16-bit digest standing for the keyed hash and for MD5: a function of every
\* character of its input, rendered as four hexadecimal digits
RECURSIVE HashRange(_, _, _)
HashRange(s, lo, hi) ==
    IF lo > hi THEN 7
    ELSE IF lo = hi THEN (Ord(s[lo]) * ((lo % 251) + 1)) % 65536
    ELSE LET mid == (lo + hi) \div 2 IN
         (HashRange(s, lo, mid) * 31 + HashRange(s, mid + 1, hi)) % 65536
Digest(s) ==
    LET h == HashRange(s, 1, Len(s)) IN
    <<HexDigit[(h \div 4096) + 1], HexDigit[((h \div 256) % 16) + 1],
      HexDigit[((h \div 16) % 16) + 1], HexDigit[(h % 16) + 1]>>

\* ShaHmac1.sign_string(source, secret)
SignString(source, secret) == Digest(secret \o Chars("/") \o source)
\* parameter_helper.md5_sum(content)
Md5Sum(content) == Digest(Chars("md5/") \o content)

\* ShaHmac1: signer_name, signer_version, signer_type
SignerName == Chars("HMAC-SHA1")
SignerVersion == Chars("1.0")
SignerType == Chars("")
\* FormatType.map_format_to_accept('JSON')
AcceptJson == Chars("application/json")
\* the clock and the nonce, fixed
Rfc2616Date == Chars("Wed, 01 Jan 2020 00:00:00 GMT")
Iso8601Time == Chars("2020-01-01T00:00:00Z")
Uuid == Chars("1f0c-77aa")

NoCredentialsException == <<"raise", "NoCredentialsException">>
AttributeError == <<"raise", "AttributeError">>

---------------------------------------------------------------------------
(* Requests, responses *)

ECS   == <<"E","C","S">>
ecs   == <<"e","c","s">>
rds   == <<"r","d","s">>
CN    == <<"C","N">>
cn    == <<"c","n">>
loc   == <<"l","o","c">>
open  == <<"o","p","e","n">>
inner == <<"i","n","n","e","r">>
h1    == <<"h","1">>
h2    == <<"h","2">>

Request(p, l, r, t) ==
    [product_code |-> p, location_service_code |-> l, region_id |-> r,
     endpoint_type |-> t]

\* The requests the callers make.
Requests ==
    { Request(ECS, loc, CN, open), Request(ecs, loc, cn, open),
      Request(rds, loc, cn, open),
      Request(ecs, <<>>, cn, open) }

NoReq == Request(<<>>, <<>>, <<>>, <<>>)

\* request.product_code_lower
ProductCodeLower(r) == Lower(r.product_code)

ServerException(code, message) ==
    [kind |-> "ServerException", error_code |-> code, error_message |-> message]

InvalidRegion == ServerException("InvalidRegionId", "The specified region does not exist.")
IllegalParameter == ServerException("Illegal Parameter", "Please check the parameters")
\* Rejections that are neither of the two recognized shapes.
OtherRejections ==
    { ServerException("InvalidRegionId", "Please check the parameters"),
      ServerException("Throttling", "Request was denied due to user flow control.") }
Rejections == {InvalidRegion, IllegalParameter} \cup OtherRejections

Item(sc, typo, t, e) ==
    [ServiceCode |-> sc, SerivceCode |-> typo, Type |-> t, Endpoint |-> e]

\* Entries of Endpoints.Endpoint[]; a missing field is None (item.get).
Items ==
    { Item(ecs, None, open, h1),      \* correct spelling
      Item(None, ecs, open, h2),      \* the upstream typo only
      Item(ecs, None, inner, h2),     \* another endpoint type
      Item(<<>>, None, open, h2) }    \* an empty service code

RECURSIVE Lists(_)
Lists(n) ==
    IF n = 0 THEN { <<>> }
    ELSE Lists(n - 1) \cup { Append(l, i) : l \in { x \in Lists(n - 1) : Len(x) = n - 1 }, i \in Items }

Success(items) == [kind |-> "Response", Endpoint |-> items]
Successes == { Success(l) : l \in Lists(MaxItems) }
Responses == Rejections \cup Successes
NoResp == [kind |-> "NoResp"]

Raised(e) == <<"raise", e.error_code, e.error_message>>
Pending == <<"pending">>

---------------------------------------------------------------------------
(* LocationServiceEndpointResolver *)

\* _make_endpoint_entry_key
MakeEndpointEntryKey(product_code, location_service_code, region_id, endpoint_type) ==
    Join(<<Lower(product_code), location_service_code, Lower(region_id), endpoint_type>>,
         <<".">>)

\* get_endpoint_key_from_request
GetEndpointKeyFromRequest(r) ==
    MakeEndpointEntryKey(r.product_code, r.location_service_code, r.region_id,
                         r.endpoint_type)

\* EndpointResolverBase.put_endpoint_entry
PutEndpointEntry(data, key, endpoint) ==
    [k \in DOMAIN data \cup {key} |-> IF k = key THEN endpoint ELSE data[k]]

\* dict.get(key)
Get(data, key) == IF key \in DOMAIN data THEN data[key] ELSE None

\* the loop of _call_location_service over body["Endpoints"]["Endpoint"]:
\* <<found_flag, endpoint>>
RECURSIVE ScanEndpoints(_, _)
ScanEndpoints(items, endpoint_type) ==
    IF items = <<>> THEN <<FALSE, None>>
    ELSE LET item == Head(items)
             service_code == Or(item.ServiceCode, item.SerivceCode)
         IN  IF Truthy(service_code) /\ item.Type = endpoint_type
             THEN <<TRUE, item.Endpoint>>
             ELSE ScanEndpoints(Tail(items), endpoint_type)


\* a variant that takes a cached None for a miss
IsCachedMutTruthy(data, key) == key \in DOMAIN data /\ data[key] # None

\* resolve line 55 and _get_endpoint_from_location_service line 65: key in endpoints_data
IsCached(data, key) == key \in DOMAIN data

\* a variant that looks at the error code only
IsNoSuchRegionMutCodeOnly(e) == "InvalidRegionId" = e.error_code

\* _call_location_service, lines 82-83: the rejection means "no such region"
IsNoSuchRegion(e) ==
    /\ "InvalidRegionId" = e.error_code
    /\ "The specified region does not exist." = e.error_message

\* _call_location_service, lines 88-89: the rejection means "no such product"
IsNoSuchProduct(e) ==
    /\ "Illegal Parameter" = e.error_code
    /\ "Please check the parameters" = e.error_message

\* is_product_code_valid, is_region_id_valid
IsProductCodeValid(r) ==
    IF Truthy(r.location_service_code)
    THEN ProductCodeLower(r) \notin invalid_product_codes ELSE FALSE
IsRegionIdValid(r) ==
    IF Truthy(r.location_service_code)
    THEN r.region_id \notin invalid_region_ids ELSE FALSE

\* resolve, line 48: the product check made before the cache is read
InvalidProductShortCircuit(r) == ProductCodeLower(r) \in invalid_product_codes

\* a variant that lower-cases the region id first
InvalidRegionShortCircuitMutLower(r) == Lower(r.region_id) \in invalid_region_ids

\* resolve, line 51: the region check made before the cache is read
InvalidRegionShortCircuit(r) == r.region_id \in invalid_region_ids

\* The entry a response's endpoint list offers for a type, in the words of
\* the interface: the hostname of the entry of least index whose Type is the
\* requested one and that carries a service code under either spelling.
Carries(item) == Truthy(item.ServiceCode) \/ Truthy(item.SerivceCode)
Offered(items, endpoint_type) ==
    LET hits == { i \in DOMAIN items : items[i].Type = endpoint_type /\ Carries(items[i]) }
    IN  IF hits = {} THEN None
        ELSE items[CHOOSE i \in hits : \A j \in hits : i <= j].Endpoint

\* What the properties remember of the response a call got: a rejection as it
\* is, a successful response by the endpoint it offers.
Seen(o, r) ==
    IF o.kind = "Response"
    THEN [kind |-> "Response", offered |-> Offered(o.Endpoint, r.endpoint_type)]
    ELSE o

\* A call that is over, that cached a hostname for the key and returned it.
HasServed(t, key, h) ==
    /\ pc[t] = "done"
    /\ Truthy(req[t].location_service_code)
    /\ GetEndpointKeyFromRequest(req[t]) = key
    /\ resp[t].kind = "Response"
    /\ resp[t].offered = h
    /\ ret[t] = h

\* The same letters, whatever their case.
SameIgnoringCase(a, b) == Lower(a) = Lower(b)

\* What holds as a call for r begins:
\*   cached         the cache's entry for r's key, <<>> when it has none
\*   served         a call now over cached that entry, a hostname, and returned it
\*   region_invalid r's region id is recorded as invalid
\*   invalid        r's product code, lower-cased, or r's region id is recorded
\*                  as invalid
\*   invalid_ci     r's region id or product code is recorded as invalid, in
\*                  whatever letter case
SnapAt(r) ==
    IF Truthy(r.location_service_code)
    THEN LET key == GetEndpointKeyFromRequest(r)
         IN  [cached |-> IF key \in DOMAIN endpoints_data
                         THEN <<endpoints_data[key]>> ELSE <<>>,
              served |-> /\ key \in DOMAIN endpoints_data
                         /\ endpoints_data[key] \in {h1, h2}
                         /\ \E u \in Threads : HasServed(u, key, endpoints_data[key]),
              region_invalid |-> r.region_id \in invalid_region_ids,
              invalid |-> \/ ProductCodeLower(r) \in invalid_product_codes
                          \/ r.region_id \in invalid_region_ids,
              invalid_ci |->
                  \/ \E x \in invalid_region_ids : SameIgnoringCase(x, r.region_id)
                  \/ \E x \in invalid_product_codes : SameIgnoringCase(x, r.product_code)]
    ELSE [cached |-> <<>>, served |-> FALSE, region_invalid |-> FALSE,
          invalid |-> FALSE, invalid_ci |-> FALSE]

NoSnap == [cached |-> <<>>, served |-> FALSE, region_invalid |-> FALSE,
           invalid |-> FALSE, invalid_ci |-> FALSE]

\* resolve is called: lines 45-52
Begin(t, r) ==
    /\ pc[t] \in {"idle", "done"}
    /\ req' = [req EXCEPT ![t] = r]
    /\ resp' = [resp EXCEPT ![t] = NoResp]
    /\ IF \/ ~Truthy(r.location_service_code)
          \/ InvalidProductShortCircuit(r)
          \/ InvalidRegionShortCircuit(r)
       THEN /\ pc' = [pc EXCEPT ![t] = "done"]
            /\ ret' = [ret EXCEPT ![t] = None]
            /\ snap' = [snap EXCEPT ![t] = SnapAt(r)]
       ELSE /\ pc' = [pc EXCEPT ![t] = "lookup"]
            /\ ret' = [ret EXCEPT ![t] = Pending]
            /\ snap' = [snap EXCEPT ![t] = SnapAt(r)]
    /\ UNCHANGED <<endpoints_data, invalid_product_codes, invalid_region_ids,
                   valid_product_codes, valid_region_ids, signerVars>>

\* resolve, lines 54-60: the cache is read; on a miss a new lock is made and taken
CacheLookup(t) ==
    /\ pc[t] = "lookup"
    /\ LET key == GetEndpointKeyFromRequest(req[t])
       IN  IF IsCached(endpoints_data, key)
           THEN /\ pc' = [pc EXCEPT ![t] = "done"]
                /\ ret' = [ret EXCEPT ![t] = endpoints_data[key]]
                /\ UNCHANGED snap
           ELSE /\ pc' = [pc EXCEPT ![t] = "locked"]
                /\ UNCHANGED <<ret, snap>>
    /\ UNCHANGED <<endpoints_data, invalid_product_codes, invalid_region_ids,
                   valid_product_codes, valid_region_ids, req, resp, signerVars>>

\* _get_endpoint_from_location_service, lines 65-68, and the call of fetch, 73-79
GetEndpointFromLocationService(t) ==
    /\ pc[t] = "locked"
    /\ LET key == GetEndpointKeyFromRequest(req[t])
       IN  IF IsCached(endpoints_data, key)
           THEN /\ pc' = [pc EXCEPT ![t] = "done"]
                /\ ret' = [ret EXCEPT ![t] = Get(endpoints_data, key)]
                /\ UNCHANGED snap
           ELSE /\ pc' = [pc EXCEPT ![t] = "fetch"]
                /\ UNCHANGED <<ret, snap>>
    /\ UNCHANGED <<endpoints_data, invalid_product_codes, invalid_region_ids,
                   valid_product_codes, valid_region_ids, req, resp, signerVars>>

\* _call_location_service, lines 75-118: fetch returns o or raises o, and the
\* thread handles it
CallLocationService(t, o) ==
    /\ pc[t] = "fetch"
    /\ resp' = [resp EXCEPT ![t] = Seen(o, req[t])]
    /\ LET key == GetEndpointKeyFromRequest(req[t])
           e == o
       IN  IF e.kind = "ServerException"
           THEN IF IsNoSuchRegion(e)
                THEN /\ invalid_region_ids' = invalid_region_ids \cup {req[t].region_id}
                     /\ endpoints_data' = PutEndpointEntry(endpoints_data, key, None)
                     /\ pc' = [pc EXCEPT ![t] = "return"]
                     /\ UNCHANGED <<invalid_product_codes, valid_product_codes,
                                    valid_region_ids, ret, snap>>
                ELSE IF IsNoSuchProduct(e)
                THEN /\ invalid_product_codes' =
                            invalid_product_codes \cup {ProductCodeLower(req[t])}
                     /\ endpoints_data' = PutEndpointEntry(endpoints_data, key, None)
                     /\ pc' = [pc EXCEPT ![t] = "return"]
                     /\ UNCHANGED <<invalid_region_ids, valid_product_codes,
                                    valid_region_ids, ret, snap>>
                ELSE /\ pc' = [pc EXCEPT ![t] = "done"]
                     /\ ret' = [ret EXCEPT ![t] = Raised(e)]
                     /\ UNCHANGED snap
                     /\ UNCHANGED <<endpoints_data, invalid_product_codes,
                                    invalid_region_ids, valid_product_codes,
                                    valid_region_ids>>
           ELSE LET found == ScanEndpoints(e.Endpoint, req[t].endpoint_type)
                    endpoint == IF found[1] THEN found[2] ELSE None
                IN  /\ valid_product_codes' =
                            valid_product_codes \cup {ProductCodeLower(req[t])}
                    /\ valid_region_ids' = valid_region_ids \cup {req[t].region_id}
                    /\ endpoints_data' = PutEndpointEntry(endpoints_data, key, endpoint)
                    /\ pc' = [pc EXCEPT ![t] = "return"]
                    /\ UNCHANGED <<invalid_product_codes, invalid_region_ids, ret, snap>>
    /\ UNCHANGED <<req, signerVars>>

\* _get_endpoint_from_location_service, line 70
ReturnEndpoint(t) ==
    /\ pc[t] = "return"
    /\ ret' = [ret EXCEPT ![t] = Get(endpoints_data, GetEndpointKeyFromRequest(req[t]))]
    /\ pc' = [pc EXCEPT ![t] = "done"]
    /\ UNCHANGED snap
    /\ UNCHANGED <<endpoints_data, invalid_product_codes, invalid_region_ids,
                   valid_product_codes, valid_region_ids, req, resp, signerVars>>

---------------------------------------------------------------------------
(* Credentials and API requests given to a signer *)

NoneCredentials == [kind |-> "None"]
Credentials(id, secret, security_token, bearer_token) ==
    [kind |-> "Credentials", access_key_id |-> id, access_key_secret |-> secret,
     security_token |-> security_token, bearer_token |-> bearer_token]
AccessKey == Credentials(Chars("ak"), Chars("sk"), None, None)
StsToken == Credentials(Chars("ak"), Chars("sk"), Chars("st+1"), None)
CredentialsSet == {NoneCredentials, AccessKey, StsToken}

RegionId == Chars("cn-hangzhou")
Version == Chars("2014-05-26")

ApiRequest(method, uri_pattern, path_params, query_params, body_params, headers, content) ==
    [method |-> method, action_name |-> Chars("DescribeRegions"),
     uri_pattern |-> uri_pattern, path_params |-> path_params,
     query_params |-> query_params, body_params |-> body_params,
     headers |-> headers, content |-> content]

QueryParamsSet ==
    {<<>>, << <<Chars("PageSize"), Chars("1 0")>>, <<Chars("Filter"), Chars("a*")>> >>}
BodyParamsSet == {<<>>, << <<Chars("Name"), Chars("a+b")>> >>}
UriPatterns ==
    {<< Chars("/users/[id]"), << <<Chars("id"), Chars("7")>> >> >>,
     << Chars("/users?[id]"), << <<Chars("id"), Chars("tag")>> >> >>}
Payloads ==
    {<< Chars("GET"), <<>>, None >>,
     << Chars("post"),
        << <<Chars("Content-Type"), Chars("text/plain")>>,
           <<Chars("X-Acs-Trace"), Chars("t1")>> >>,
        Chars("data") >>}
ApiRequests ==
    {ApiRequest(p[1], u[1], u[2], q, b, p[2], p[3]) :
        p \in Payloads, u \in UriPatterns, q \in QueryParamsSet, b \in BodyParamsSet}
NoApiRequest == [method |-> None]

NoSigner == [kind |-> "none"]
Outcome(raised, value) == [raised |-> raised, value |-> value]
\* what one read of a property gave: its value, and the canonical string and the
\* signature computed on the way (None where the read computes none)
Reading(op, value, canonical, signed) ==
    [op |-> op, value |-> value, canonical |-> canonical, signed |-> signed]

---------------------------------------------------------------------------
(* ROASigner *)

\* ROASigner._prepare_headers
PrepareHeaders(c, r) ==
    IF c = NoneCredentials THEN Outcome(TRUE, NoCredentialsException)
    ELSE
    LET hd1 == DictSet(r.headers, Chars("x-acs-version"), Version)
        hd2 == DictSet(hd1, Chars("x-acs-region-id"), Str(RegionId))
        hd3 == IF r.content # None
              THEN DictSet(hd2, Chars("Content-MD5"), Md5Sum(r.content)) ELSE hd2
        hd4 == IF c.security_token # None
              THEN DictSet(hd3, Chars("x-acs-security-token"), c.security_token) ELSE hd3
        hd5 == IF c.bearer_token # None
              THEN DictSet(hd4, Chars("x-acs-bearer-token"), c.bearer_token) ELSE hd4
    IN Outcome(FALSE, hd5)

\* ROASigner._refresh_sign_parameters
RefreshSignParameters(headers) ==
    LET p1 == DictSet(headers, Chars("Date"), Rfc2616Date)
        p2 == DictSet(p1, Chars("Accept"), AcceptJson)
        p3 == DictSet(p2, Chars("x-acs-signature-method"), SignerName)
    IN DictSet(p3, Chars("x-acs-signature-version"), SignerVersion)

\* ROASigner._replace_occupied_parameters
RECURSIVE ReplaceParametersFrom(_, _, _)
ReplaceParametersFrom(result, paths, i) ==
    IF i > Len(paths) THEN result
    ELSE ReplaceParametersFrom(
             Replace(result, <<"[">> \o paths[i][1] \o <<"]">>, paths[i][2]),
             paths, i + 1)
ReplaceOccupiedParameters(r) ==
    IF r.path_params # <<>>
    THEN ReplaceParametersFrom(r.uri_pattern, r.path_params, 1)
    ELSE r.uri_pattern

\* ROASigner._build_canonical_headers
RECURSIVE LowerKeyedFrom(_, _, _, _)
LowerKeyedFrom(headers, header_begin, i, unsort_map) ==
    IF i > Len(headers) THEN unsort_map
    ELSE LowerKeyedFrom(headers, header_begin, i + 1,
             IF Contains(Lower(headers[i][1]), header_begin)
             THEN DictSet(unsort_map, Lower(headers[i][1]), headers[i][2])
             ELSE unsort_map)
BuildCanonicalHeaders(headers, header_begin) ==
    LET sort_map == Sorted(LowerKeyedFrom(headers, header_begin, 1, <<>>)) IN
    Concat([i \in DOMAIN sort_map |->
              sort_map[i][1] \o <<":">> \o sort_map[i][2] \o <<Newline>>])

\* ROASigner._build_canonical_resource: the string it returns, and the queries
\* mapping as it leaves it (the mapping is the caller's, changed in place)
BuildCanonicalResource(uri, queries) ==
    LET uri_parts == RSplit1(uri, "?")
        queries1 == IF Len(uri_parts) > 1
                    THEN DictSet(queries, uri_parts[2], None) ELSE queries
        sorted_map == Sorted(queries1)
        query_builder ==
            uri_parts[1]
            \o (IF Len(sorted_map) > 0 THEN <<"?">> ELSE <<>>)
            \o Concat([i \in DOMAIN sorted_map |->
                         sorted_map[i][1]
                         \o (IF sorted_map[i][2] # None
                             THEN <<"=">> \o Str(sorted_map[i][2]) ELSE <<>>)
                         \o <<"&">>])
    IN [string |-> IF EndsWith(query_builder, <<"&">>)
                   THEN SubSeq(query_builder, 1, Len(query_builder) - 1)
                   ELSE query_builder,
        queries |-> queries1]

InterestingHeaders ==
    <<Chars("Accept"), Chars("Content-MD5"), Chars("Content-Type"), Chars("Date")>>

\* ROASigner.signature: the canonical string, and self._headers and
\* request._query_params as the read leaves them
ROASignatureOf(s, r) ==
    LET headers == RefreshSignParameters(s.headers)
        resource == BuildCanonicalResource(s.uri, r.query_params)
    IN [string |->
            Upper(r.method) \o <<Newline>>
            \o Concat([i \in DOMAIN InterestingHeaders |->
                         (IF DictGet(headers, InterestingHeaders[i]) # None
                          THEN DictGet(headers, InterestingHeaders[i]) ELSE <<>>)
                         \o <<Newline>>])
            \o BuildCanonicalHeaders(headers, Chars("x-acs-"))
            \o resource.string,
        headers |-> headers,
        queries |-> resource.queries]

\* ROASigner.params
ROAParamsOf(uri, query_params) ==
    LET p1 == IF ~EndsWith(uri, <<"?">>) THEN uri \o <<"?">> ELSE uri
        p2 == p1 \o Urlencode(query_params)
    IN IF EndsWith(p2, <<"?">>) THEN SubSeq(p2, 1, Len(p2) - 1) ELSE p2

---------------------------------------------------------------------------
(* RPCSigner *)

\* a lazy variant of it: nothing is canonicalized, nothing raised
CanonicalizedQueryStringMutLazy(c, r) == Outcome(FALSE, r.query_params)

\* RPCSigner._canonicalized_query_string
CanonicalizedQueryString(c, r) ==
    IF c = NoneCredentials THEN Outcome(TRUE, NoCredentialsException)
    ELSE
    LET p1 == DictSet(r.query_params, Chars("Version"), Version)
        p2 == DictSet(p1, Chars("Action"), r.action_name)
        p3 == DictSet(p2, Chars("Format"), Chars("JSON"))
        p4 == DictSet(p3, Chars("Timestamp"), Iso8601Time)
        p5 == DictSet(p4, Chars("SignatureMethod"), SignerName)
        p6 == DictSet(p5, Chars("SignatureType"), SignerType)
        p7 == DictSet(p6, Chars("SignatureVersion"), SignerVersion)
        p8 == DictSet(p7, Chars("SignatureNonce"), Uuid)
        p9 == IF c.access_key_id # None
              THEN DictSet(p8, Chars("AccessKeyId"), c.access_key_id) ELSE p8
    IN Outcome(FALSE, p9)

\* RPCSigner._pop_standard_urlencode
PopStandardUrlencode(query) ==
    Replace(Replace(Replace(query, <<"+">>, Chars("%20")), <<"*">>, Chars("%2A")),
            Chars("%7E"), <<"~">>)

\* RPCSigner._calc_signature
CalcSignature(method, params) ==
    LET sorted_parameters == Sorted(params)
        sorted_query_string == PopStandardUrlencode(Urlencode(sorted_parameters))
        canonicalized_query_string ==
            PopStandardUrlencode(Pathname2Url(sorted_query_string))
    IN method \o Chars("&%2F&") \o canonicalized_query_string

\* RPCSigner.signature: what the read gives, and self.parameters as it leaves it
RPCSignatureOf(s, r) ==
    LET p1 == DictUpdate(s.parameters, r.body_params) IN
    IF s.credentials = NoneCredentials
    THEN [raised |-> TRUE, string |-> AttributeError, parameters |-> p1]
    ELSE
    LET p2 == IF s.credentials.security_token # None
              THEN DictSet(p1, Chars("SecurityToken"), s.credentials.security_token)
              ELSE p1
        p3 == IF s.credentials.bearer_token # None
              THEN DictSet(p2, Chars("BearerToken"), s.credentials.bearer_token)
              ELSE p2
    IN [raised |-> FALSE, string |-> CalcSignature(r.method, p3), parameters |-> p3]

---------------------------------------------------------------------------
(* One signer: construction, then reads of its properties *)

CanRead(kind) ==
    /\ signer.kind = kind
    /\ signer.state = "ok"
    /\ Len(reads) < MaxReads

\* ROASigner.__init__
NewROASigner(c) ==
    /\ signer = NoSigner
    /\ LET headers == PrepareHeaders(c, request) IN
       signer' = IF headers.raised
                 THEN [kind |-> "ROA", state |-> "raised", credentials |-> c,
                       exception |-> headers.value]
                 ELSE [kind |-> "ROA", state |-> "ok", credentials |-> c,
                       headers |-> headers.value,
                       uri |-> ReplaceOccupiedParameters(request)]
    /\ UNCHANGED <<request, reads, given, resolverVars>>

\* RPCSigner.__init__
NewRPCSigner(c) ==
    /\ signer = NoSigner
    /\ LET parameters == CanonicalizedQueryString(c, request) IN
       signer' = IF parameters.raised
                 THEN [kind |-> "RPC", state |-> "raised", credentials |-> c,
                       exception |-> parameters.value]
                 ELSE [kind |-> "RPC", state |-> "ok", credentials |-> c,
                       parameters |-> parameters.value]
    /\ UNCHANGED <<request, reads, given, resolverVars>>

\* a read of ROASigner.signature
ROASignature ==
    /\ CanRead("ROA")
    /\ LET s == ROASignatureOf(signer, request) IN
       /\ reads' = Append(reads, Reading("signature", s.string, s.string, None))
       /\ signer' = [signer EXCEPT !.headers = s.headers]
       /\ request' = [request EXCEPT !.query_params = s.queries]
    /\ UNCHANGED <<given, resolverVars>>

\* a read of ROASigner.headers
ROAHeaders ==
    /\ CanRead("ROA")
    /\ LET s == ROASignatureOf(signer, request)
           signature == SignString(s.string, signer.credentials.access_key_secret)
           headers == DictSet(s.headers, Chars("Authorization"),
                              Chars("acs ") \o signer.credentials.access_key_id
                              \o <<":">> \o signature)
       IN /\ reads' = Append(reads, Reading("headers", headers, s.string, signature))
          /\ signer' = [signer EXCEPT !.headers = headers]
          /\ request' = [request EXCEPT !.query_params = s.queries]
    /\ UNCHANGED <<given, resolverVars>>

\* a read of ROASigner.params
ROAParams ==
    /\ CanRead("ROA")
    /\ reads' = Append(reads, Reading("params",
                                      ROAParamsOf(signer.uri, request.query_params),
                                      None, None))
    /\ UNCHANGED <<signer, request, given, resolverVars>>

\* a read of RPCSigner.signature
RPCSignature ==
    /\ CanRead("RPC")
    /\ LET s == RPCSignatureOf(signer, request) IN
       /\ reads' = Append(reads,
                          Reading("signature", s.string,
                                  IF s.raised THEN None ELSE s.string, None))
       /\ signer' = [signer EXCEPT !.parameters = s.parameters]
    /\ UNCHANGED <<request, given, resolverVars>>

\* a read of RPCSigner.params
RPCParams ==
    /\ CanRead("RPC")
    /\ LET s == RPCSignatureOf(signer, request) IN
       IF s.raised
       THEN /\ reads' = Append(reads, Reading("params", s.string, None, None))
            /\ signer' = [signer EXCEPT !.parameters = s.parameters]
       ELSE LET signature ==
                    SignString(s.string,
                               Str(signer.credentials.access_key_secret) \o <<"&">>)
                parameters == DictSet(s.parameters, Chars("Signature"), signature)
            IN /\ reads' = Append(reads,
                                  Reading("params", <<"?">> \o Urlencode(parameters),
                                          s.string, signature))
               /\ signer' = [signer EXCEPT !.parameters = parameters]
    /\ UNCHANGED <<request, given, resolverVars>>

\* a read of RPCSigner.headers
RPCHeaders ==
    /\ CanRead("RPC")
    /\ reads' = Append(reads, Reading("headers", request.headers, None, None))
    /\ UNCHANGED <<signer, request, given, resolverVars>>

---------------------------------------------------------------------------
EmptyDict == [k \in {} |-> None]


InitResolver ==
    /\ endpoints_data = EmptyDict
    /\ invalid_product_codes = {}
    /\ invalid_region_ids = {}
    /\ valid_product_codes = {}
    /\ valid_region_ids = {}
    /\ pc = [t \in Threads |-> "idle"]
    /\ req = [t \in Threads |-> NoReq]
    /\ resp = [t \in Threads |-> NoResp]
    /\ ret = [t \in Threads |-> Pending]
    /\ snap = [t \in Threads |-> NoSnap]

Init ==
    /\ InitResolver
    /\ signer = NoSigner
    /\ request = NoApiRequest
    /\ given = NoApiRequest
    /\ reads = <<>>

Next ==
    \/ \E t \in Threads, r \in Requests : Begin(t, r)
    \/ \E t \in Threads : CacheLookup(t)
    \/ \E t \in Threads : GetEndpointFromLocationService(t)
    \/ \E t \in Threads, o \in Responses : CallLocationService(t, o)
    \/ \E t \in Threads : ReturnEndpoint(t)

Spec == Init /\ [][Next]_vars

InitSigner ==
    /\ InitResolver
    /\ signer = NoSigner
    /\ request \in ApiRequests
    /\ given = request
    /\ reads = <<>>

NextSigner ==
    \/ \E c \in CredentialsSet : NewROASigner(c)
    \/ \E c \in CredentialsSet : NewRPCSigner(c)
    \/ ROASignature
    \/ ROAHeaders
    \/ ROAParams
    \/ RPCSignature
    \/ RPCParams
    \/ RPCHeaders

SpecSigner == InitSigner /\ [][NextSigner]_vars

---------------------------------------------------------------------------
(* Properties of the resolver, checked under Spec *)

KeyOf(t) == GetEndpointKeyFromRequest(req[t])
Hosts == {h1, h2}
\* Thread t has called fetch and fetch has not returned: a network call in flight.
InFlight(t) == pc[t] = "fetch"
\* Thread t's call went, or is going, to the network.
OnMissPath(t) == pc[t] \in {"locked", "fetch", "return"}

\* C1: at most one describe-endpoint call for a resolution key is in flight at
\* any time: N concurrent callers for one uncached key make one network call.
C1_OneInFlightPerKey ==
    \A t \in Threads, u \in Threads :
        (t # u /\ InFlight(t) /\ InFlight(u)) => KeyOf(t) # KeyOf(u)

\* C2: a resolve call that begins when its key is cached as None ("no
\* endpoint") makes no network call and returns None.
C2_NegativeMemoization ==
    \A t \in Threads :
        snap[t].cached = <<None>> =>
            /\ ~OnMissPath(t)
            /\ pc[t] = "done" => ret[t] = None

\* C3: a resolve call that begins when its request's region id is recorded as
\* invalid is over at once: it returns None and makes no network call, whatever
\* its product code and whether or not its key is cached.
C3_InvalidRegionShortCircuit ==
    \A t \in Threads :
        snap[t].region_invalid => (pc[t] = "done" /\ ret[t] = None /\ resp[t] = NoResp)

\* C3's case: a call for a region recorded as invalid, whose product code is
\* not invalid and whose key is not cached, returned None without a network call.
C3_Witness ==
    \E t \in Threads :
        /\ pc[t] = "done"
        /\ snap[t].region_invalid
        /\ ~InvalidProductShortCircuit(req[t])
        /\ KeyOf(t) \notin DOMAIN endpoints_data
        /\ ret[t] = None

\* C4: when fetch raises a rejection other than the two recognized ones, the
\* call ends by raising that very rejection, and the step leaves the cache and
\* the four sets exactly as they were: it stores no entry for the key and adds
\* nothing to a set, so a key that was uncached before the failure is uncached
\* after it.
C4_OtherRejectionPropagates ==
    [][\A t \in Threads :
        (pc[t] = "fetch" /\ resp'[t] \in OtherRejections) =>
            /\ pc'[t] = "done"
            /\ ret'[t] = Raised(resp'[t])
            /\ UNCHANGED <<endpoints_data, invalid_product_codes, invalid_region_ids,
                           valid_product_codes, valid_region_ids>>]_vars

\* C4's case: a call ended in a propagated rejection while no other call was
\* running, and its key is still uncached and unmarked.
C4_Witness ==
    \E t \in Threads :
        /\ pc[t] = "done"
        /\ resp[t] \in OtherRejections
        /\ ret[t] = Raised(resp[t])
        /\ KeyOf(t) \notin DOMAIN endpoints_data
        /\ ~InvalidProductShortCircuit(req[t])
        /\ ~InvalidRegionShortCircuit(req[t])
        /\ \A u \in Threads \ {t} : pc[u] \in {"idle", "done"}

C9_SuccessReturnsFirstMatch ==
    \A t \in Threads :
        (pc[t] = "done" /\ resp[t].kind = "Response") =>
            /\ ret[t] = resp[t].offered
            /\ KeyOf(t) \in DOMAIN endpoints_data
            /\ ProductCodeLower(req[t]) \in valid_product_codes
            /\ req[t].region_id \in valid_region_ids

\* C10: a resolve call that begins when its region id or its product code is
\* recorded as invalid, in whatever letter case, makes no network call and
\* returns None.
C10_ShortCircuitIgnoresCase ==
    \A t \in Threads :
        snap[t].invalid_ci =>
            /\ ~OnMissPath(t)
            /\ pc[t] = "done" => ret[t] = None

---------------------------------------------------------------------------
(* Properties of the signers (SpecSigner) *)

Constructed(kind) == signer.kind = kind /\ signer.state = "ok"
FailedAtConstruction(kind) ==
    /\ signer.kind = kind
    /\ signer.state = "raised"
    /\ signer.exception = <<"raise", "NoCredentialsException">>
    /\ reads = <<>>

\* C5, as stated: with credentials None the ROA signer fails with the
\* no-credentials error at construction, whereas the RPC signer is constructed
\* and raises the no-credentials error only when signature or params is read.
C5_RPCRaisesLazily ==
    (signer.kind \in {"ROA", "RPC"} /\ signer.credentials = NoneCredentials) =>
        /\ signer.kind = "ROA" => FailedAtConstruction("ROA")
        /\ signer.kind = "RPC" =>
               /\ Constructed("RPC")
               /\ \A i \in DOMAIN reads :
                      reads[i].op \in {"signature", "params"} =>
                          reads[i].value = <<"raise", "NoCredentialsException">>

\* C5, amended: with credentials None both signers fail with the no-credentials
\* error at construction: no RPC signer and no ROA signer exists without
\* credentials, so nothing is ever read from one.
C5_BothRaiseAtConstruction ==
    (signer.kind \in {"ROA", "RPC"} /\ signer.credentials = NoneCredentials) =>
        FailedAtConstruction(signer.kind)

\* C5's case: an RPC signer was asked for with credentials None.
C5_Witness ==
    /\ signer.kind = "RPC"
    /\ signer.credentials = NoneCredentials
    /\ FailedAtConstruction("RPC")

\* C6: whatever was read from one signer before, a read computes the same
\* canonical string and the same signature as every other read, and a property
\* read again has the value it had.
C6_ReadsDeterministic ==
    \A i \in DOMAIN reads, j \in DOMAIN reads :
        /\ (reads[i].canonical # None /\ reads[j].canonical # None) =>
               reads[i].canonical = reads[j].canonical
        /\ (reads[i].signed # None /\ reads[j].signed # None) =>
               reads[i].signed = reads[j].signed
        /\ reads[i].op = reads[j].op => reads[i].value = reads[j].value

\* C7: reads of an ROA signer leave the request's query parameters as they were
\* given, and params is the resolved URI followed by those parameters
\* form-encoded, whatever was read before.
C7_ParamsOfOriginalQuery ==
    Constructed("ROA") =>
        /\ request.query_params = given.query_params
        /\ \A i \in DOMAIN reads :
               reads[i].op = "params" =>
                   reads[i].value = ROAParamsOf(signer.uri, given.query_params)

===========================================================================
